---- MODULE Spec2Model ----
(***************************************************************************)
(* Wallet stablecoin-percentage aggregation of CrpBase/stablecoins.        *)
(*                                                                         *)
(*   src/script.js        isStableToken, getStablePercent, next4 handler   *)
(*   src/unnamed/part_000 isStable, getPortfolioBreakdown, handleCheck     *)
(*                                                                         *)
(* JavaScript strings are sequences of one-character strings.  JavaScript  *)
(* values are tagged records, so that `x || ''`, parseFloat and a method   *)
(* call on a non-string can be computed as the engine computes them.       *)
(* Quotes are integers (whole USD); a percentage is the exact fraction     *)
(* [num, den] of stable*100 over total.                                    *)
(***************************************************************************)
EXTENDS Integers, Sequences, FiniteSets, TLC

\* ------------------------------------------------------------------ bounds

\* pieces concatenated into a ticker symbol / a contract name
MaxSymPieces == 2
MaxNamePieces == 2
\* balance items in one response body
MaxItems == 2
\* characters typed into the wallet address field
MaxAddrLen == 3
\* hex digits of a wallet address
HexDigits == 1
\* submissions of a wallet check on one page
MaxCalls == 2
\* nicknames submitted on step 1 of the wizard
MaxVisits == 2

\* ------------------------------------------------------- JavaScript values

Undefined == [t |-> "undefined"]
Null == [t |-> "null"]
NaN == [t |-> "NaN"]
Infinity == [t |-> "Infinity"]
Str(s) == [t |-> "string", s |-> s]
Num(n) == [t |-> "number", n |-> n]

\* ToBoolean: undefined, null, NaN, 0 and '' are falsy
Truthy(v) ==
  CASE v.t = "string" -> v.s # <<>>
    [] v.t = "number" -> v.n # 0
    [] v.t \in {"object", "array"} -> TRUE
    [] OTHER -> FALSE

\* x || ''
OrEmpty(v) == IF Truthy(v) THEN v ELSE Str(<<>>)

\* ------------------------------------------------------------- characters

LowerChars == <<"a","b","c","d","e","f","g","h","i","j","k","l","m",
                "n","o","p","q","r","s","t","u","v","w","x","y","z">>
UpperChars == <<"A","B","C","D","E","F","G","H","I","J","K","L","M",
                "N","O","P","Q","R","S","T","U","V","W","X","Y","Z">>
DigitChars == <<"0","1","2","3","4","5","6","7","8","9">>

InSeq(c, s) == \E i \in 1..Len(s) : s[i] = c
IndexIn(c, s) == CHOOSE i \in 1..Len(s) : s[i] = c

Range(s) == {s[i] : i \in 1..Len(s)}
UpperMap == [c \in Range(LowerChars) |-> UpperChars[IndexIn(c, LowerChars)]]
UpperChar(c) == IF c \in DOMAIN UpperMap THEN UpperMap[c] ELSE c

\* String.prototype.toUpperCase
toUpperCase(s) == [i \in 1..Len(s) |-> UpperChar(s[i])]

LowerMap == [c \in Range(UpperChars) |-> LowerChars[IndexIn(c, UpperChars)]]
LowerChar(c) == IF c \in DOMAIN LowerMap THEN LowerMap[c] ELSE c
\* String.prototype.toLowerCase
toLowerCase(s) == [i \in 1..Len(s) |-> LowerChar(s[i])]

\* \w of a regular expression: [A-Za-z0-9_]
WordChars == Range(LowerChars) \cup Range(UpperChars) \cup Range(DigitChars) \cup {"_"}
IsWordChar(c) == c \in WordChars

\* \s as far as trim() is concerned, over the characters of the model
IsSpace(c) == c = " "

\* \b at the gap before position i (1..Len(s)+1) of s
WordBoundary(s, i) ==
  LET before == i > 1 /\ IsWordChar(s[i-1])
      after == i <= Len(s) /\ IsWordChar(s[i])
  IN before # after

\* /\bW\b/.test(s) for a literal word W
WholeWordTest(w, s) ==
  \E i \in 1..(Len(s) - Len(w) + 1) :
    /\ SubSeq(s, i, i + Len(w) - 1) = w
    /\ WordBoundary(s, i)
    /\ WordBoundary(s, i + Len(w))

\* w occurs in s as a substring
Contains(w, s) == \E i \in 1..(Len(s) - Len(w) + 1) : SubSeq(s, i, i + Len(w) - 1) = w

USD == <<"U","S","D">>
STABLE == <<"S","T","A","B","L","E">>

\* String.prototype.trim
RECURSIVE TrimLeft(_)
TrimLeft(s) == IF s # <<>> /\ IsSpace(Head(s)) THEN TrimLeft(Tail(s)) ELSE s
RECURSIVE TrimRight(_)
TrimRight(s) == IF s # <<>> /\ IsSpace(s[Len(s)]) THEN TrimRight(SubSeq(s, 1, Len(s) - 1)) ELSE s
\* the trim is forgotten
trimNothing(s) == s
trim(s) == TrimRight(TrimLeft(s))

\* ------------------------------------------------------------ classifiers

STABLE_TICKERS == {
  <<"U","S","D","C">>, <<"U","S","D","T">>, <<"D","A","I">>, <<"F","R","A","X">>,
  <<"T","U","S","D">>, <<"B","U","S","D">>, <<"U","S","D","P">>, <<"U","S","D","D">>,
  <<"G","U","S","D">>, <<"L","U","S","D">>, <<"R","S","V">>, <<"M","I","M">>,
  <<"U","S","D","N">>, <<"F","E","I">>, <<"C","U","S","D">>, <<"S","U","S","D">>,
  <<"X","S","G","D">>, <<"E","U","R","S">>, <<"H","U","S","D">>, <<"U","S","D","K">>,
  <<"U","S","D","S">>, <<"U","S","D","E">>, <<"U","S","D","L">>, <<"P","A","I">>,
  <<"Y","U","S","D">> }

STABLECOIN_TICKERS == STABLE_TICKERS \cup { <<"S","A","I">> }

\* a token item of a response body
Item(sym, name, quote) ==
  [t |-> "object", contract_ticker_symbol |-> sym, contract_name |-> name, quote |-> quote]

\* reading a property of null or undefined is a TypeError
IsObject(v) == v.t = "object"

\* (x || '').toUpperCase() is a TypeError when x is truthy and not a string
UpperThrows(v) == OrEmpty(v).t # "string"
UpperOf(v) == toUpperCase(OrEmpty(v).s)

\* isStableToken(item) of script.js: does the call throw, and what it returns
isStableTokenThrows(item) ==
  \/ ~IsObject(item)
  \/ UpperThrows(item.contract_ticker_symbol)
  \/ UpperThrows(item.contract_name)

isStableTokenSubstring(item) ==
  LET sym == UpperOf(item.contract_ticker_symbol)
      name == UpperOf(item.contract_name)
  IN IF sym \in STABLE_TICKERS THEN TRUE
     ELSE Contains(USD, sym) \/ Contains(USD, name) \/ Contains(STABLE, name)

isStableToken(item) ==
  LET sym == UpperOf(item.contract_ticker_symbol)
      name == UpperOf(item.contract_name)
  IN IF sym \in STABLE_TICKERS THEN TRUE
     ELSE WholeWordTest(USD, sym) \/ WholeWordTest(USD, name) \/ WholeWordTest(STABLE, name)

\* isStable(token) of the cross-chain variant
isStableThrows(token) ==
  \/ ~IsObject(token)
  \/ UpperThrows(token.contract_ticker_symbol)
  \/ UpperThrows(token.contract_name)

isStable(token) ==
  LET symbol == UpperOf(token.contract_ticker_symbol)
      name == UpperOf(token.contract_name)
  IN IF symbol \in STABLECOIN_TICKERS THEN TRUE
     ELSE \/ WholeWordTest(USD, symbol) \/ WholeWordTest(STABLE, symbol)
          \/ WholeWordTest(USD, name) \/ WholeWordTest(STABLE, name)

\* ------------------------------------------------------- response bodies

Arr(elems) == [t |-> "array", elems |-> elems]
\* the JSON envelope { data: d } and its data object { items: i }
Envelope(d) == [t |-> "object", data |-> d]
Data(i) == [t |-> "object", items |-> i]

\* parseFloat: a number is itself; a string is its leading whitespace, optional
\* sign and decimal digits or the word Infinity, NaN when there is neither;
\* anything else is NaN
RECURSIVE LeadingDigits(_)
LeadingDigits(s) ==
  IF s # <<>> /\ InSeq(Head(s), DigitChars) THEN <<Head(s)>> \o LeadingDigits(Tail(s)) ELSE <<>>
RECURSIVE DigitsValue(_)
DigitsValue(d) ==
  IF d = <<>> THEN 0
  ELSE 10 * DigitsValue(SubSeq(d, 1, Len(d) - 1)) + (IndexIn(d[Len(d)], DigitChars) - 1)

InfinityWord == <<"I","n","f","i","n","i","t","y">>
IsPrefix(p, s) == Len(p) <= Len(s) /\ SubSeq(s, 1, Len(p)) = p

parseFloat(v) ==
  CASE v.t \in {"number", "Infinity"} -> v
    [] v.t = "string" ->
         LET s == TrimLeft(v.s)
             neg == s # <<>> /\ Head(s) = "-"
             signed == s # <<>> /\ Head(s) \in {"-", "+"}
             unsigned == IF signed THEN Tail(s) ELSE s
             d == LeadingDigits(unsigned)
         IN IF IsPrefix(InfinityWord, unsigned) THEN Infinity
            ELSE IF d = <<>> THEN NaN
            ELSE Num(IF neg THEN 0 - DigitsValue(d) ELSE DigitsValue(d))
    [] OTHER -> NaN

\* Number.isFinite
IsFinite(q) == q.t = "number"

\* ------------------------------------------------------------ percentages

\* the fraction is not scaled to a percentage
PercentageFraction(stable, total) ==
  IF total > 0 THEN [num |-> stable, den |-> total] ELSE [num |-> 0, den |-> 1]
\* an empty portfolio counts as all stable
PercentageFullWhenEmpty(stable, total) ==
  IF total > 0 THEN [num |-> stable * 100, den |-> total] ELSE [num |-> 100, den |-> 1]
\* total > 0 ? (stable/total)*100 : 0, as the exact fraction num/den
Percentage(stable, total) ==
  IF total > 0 THEN [num |-> stable * 100, den |-> total] ELSE [num |-> 0, den |-> 1]

\* Number.prototype.toFixed(2): hundredths, rounded half away from zero
toFixed2(p) ==
  IF p.num >= 0 THEN (2 * 100 * p.num + p.den) \div (2 * p.den)
  ELSE 0 - ((2 * 100 * (0 - p.num) + p.den) \div (2 * p.den))

\* ------------------------------------------------------------ environment

\* what the user can type into the wallet address field
AddrChars == {" ", "0", "x"}
RECURSIVE StringsUpTo(_, _)
StringsUpTo(chars, n) ==
  IF n = 0 THEN { <<>> }
  ELSE LET shorter == StringsUpTo(chars, n - 1)
       IN shorter \cup { Append(s, c) : s \in shorter, c \in chars }
WalletValues == StringsUpTo(AddrChars, MaxAddrLen)

\* the data provider answers only a well-formed address (0x and a fixed number
\* of hex digits: 40 on the real networks, HexDigits here) with a success
\* status; any other path is answered 400 or not at all
HexChars == {"0","1","2","3","4","5","6","7","8","9",
             "a","b","c","d","e","f","A","B","C","D","E","F"}
WellFormedAddr(s) ==
  /\ Len(s) = 2 + HexDigits
  /\ s[1] = "0" /\ s[2] = "x"
  /\ \A i \in 3..Len(s) : s[i] \in HexChars

\* the token items the provider's bodies are made of
USDC == <<"U","S","D","C">>
ETH == <<"E","T","H">>
UsdCoin == <<"U","S","D"," ","C","o","i","n">>
Ether == <<"E","t","h","e","r">>
NotAvailable == <<"N","/","A">>

CatalogueItems == {
  Item(Str(USDC), Str(UsdCoin), Num(100)),
  Item(Str(ETH), Str(Ether), Num(100)),
  Item(Str(ETH), Str(Ether), Num(0 - 100)),
  Item(Str(USDC), Str(UsdCoin), Str(NotAvailable)),
  Item(Num(7), Str(Ether), Num(100)),
  Null }

RECURSIVE ListsUpTo(_, _)
ListsUpTo(S, n) ==
  IF n = 0 THEN { <<>> }
  ELSE LET shorter == ListsUpTo(S, n - 1)
       IN shorter \cup { Append(l, x) : l \in shorter, x \in S }

\* what res.json() can resolve with
Bodies ==
  { Null, Envelope(Undefined), Envelope(Data(Undefined)), Envelope(Data(Num(5))) }
  \cup { Envelope(Data(Arr(l))) : l \in ListsUpTo(CatalogueItems, MaxItems) }

\* property access on a parsed JSON value
GetData(v) == IF v.t = "object" /\ "data" \in DOMAIN v THEN v.data ELSE Undefined
GetItems(v) == IF v.t = "object" /\ "items" \in DOMAIN v THEN v.items ELSE Undefined

\* ------------------------------------------------------------------ state

VARIABLES
  script,        \* the script the page loaded: "script.js" or "part_000"
  pc,            \* where the aggregation stands: idle, fetch (awaiting fetch),
                 \* json (awaiting res.json()), done
  a,             \* the trimmed address (a of getStablePercent, trimmed of getPortfolioBreakdown)
  chain,         \* index in CHAINS of the network being queried
  total, stable, \* the accumulators
  requests,      \* the requests issued by the current invocation, in order
  inFlight,      \* history: the networks of getStablePercent's requests that were
                 \* issued and have not completed (response and body, or failure)
  result,        \* the promise the aggregator returned: pending, resolved or rejected
  stableResult,  \* text of #stableResult (script.js)
  alertMsg,      \* message of the alert() of the last click, "" when it raised none (script.js)
  resultDiv,     \* content of #result (part_000)
  expected,      \* history: the sums over the items of the networks that answered
                 \* with a valid response, while no response had malformed items
  seen,          \* history: the kinds of quote among the items received in this
                 \* invocation: "finite", "negative"
  walletInput,   \* value of the address field when the button was clicked
  token, verdict, \* the classifiers' input and their answers
  itemList,      \* the items a for-of loop over a response's items iterates
  pos,           \* the number of items the loop has processed
  loopPc,        \* idle, run (iterating), threw (left by an exception)
  trail,         \* history: the accumulators before the loop and after each item
  calls,         \* the invocations of the aggregator by submission number, each
                 \* with its own a, chain, total, stable and promise
  submitted,     \* the number of submissions so far
  step,          \* the wizard step shown (showStep)
  currentUser,   \* the OG_DATA entry found by the last next1 click, or undefined
  roleSelectValue,      \* roleSelect.value
  roleText,             \* textContent and the classes spinning, revealed of #roleText
  next2Disabled,        \* the disabled attribute of next2
  manualRoleWrapHidden, \* the class hidden of #manualRoleWrap
  glitchTimer,   \* null, or the interval of startEndlessGlitch with its target
  roleAutoTimer, \* the timeout handle: whether the variable is set, whether the
                 \* timeout is still to fire, and its callback
  roleClickHandlers,    \* the click listeners registered on roleText, oldest first
  reveals,       \* the glitchScrambleReveal animations in progress, oldest first
  revealDone,    \* history: the reveal started by the most recent next1 click or
                 \* role selection has completed
  visits         \* the number of nicknames submitted

aggVars == <<script, pc, a, chain, total, stable, requests, inFlight, result,
             stableResult, alertMsg, resultDiv, expected, seen, walletInput>>
clsVars == <<token, verdict>>
loopVars == <<itemList, pos, loopPc, trail>>
callVars == <<calls, submitted>>
wizVars == <<currentUser, roleSelectValue, roleText, next2Disabled, manualRoleWrapHidden,
             glitchTimer, roleAutoTimer, roleClickHandlers, reveals, revealDone, visits>>
extVars == <<loopVars, callVars, step, wizVars>>
\* the state of the page with one check at a time
singleVars == <<pc, a, chain, total, stable, requests, inFlight, result, expected, seen,
                walletInput>>
vars == <<script, pc, a, chain, total, stable, requests, inFlight, result,
          stableResult, alertMsg, resultDiv, expected, seen, walletInput, token, verdict,
          extVars>>

CHAINS == << "eth-mainnet", "arbitrum-mainnet", "base-mainnet", "bsc-mainnet",
             "optimism-mainnet", "polygon-mainnet", "linea-mainnet" >>

Pending == [kind |-> "pending"]
Resolved(v) == [kind |-> "resolved", value |-> v]
Rejected(m) == [kind |-> "rejected", message |-> m]

Text(s) == [kind |-> "text", text |-> s]
\* pct.toFixed(2) + '%'
PercentText(p) == [kind |-> "percent", hundredths |-> toFixed2(p)]
ErrorText(m) == [kind |-> "error", message |-> m]
\* Intl.NumberFormat en-US currency USD with two fraction digits: the sign and
\* the amount in cents
formatUsd(value) ==
  [negative |-> value < 0, cents |-> 100 * (IF value < 0 THEN 0 - value ELSE value)]
\* formatUsd(total), formatUsd(stable), percentage.toFixed(2) + '%'
BreakdownText(r) ==
  [kind |-> "breakdown", total |-> formatUsd(r.total), stable |-> formatUsd(r.stable),
   hundredths |-> toFixed2(r.percentage)]

Sums(t, s) == [total |-> t, stable |-> s]

\* an invocation slot before its submission; alone, overlapped and after are
\* history: the sums of the invocation's own responses counted from zero,
\* whether another invocation was in flight while this one was, and whether an
\* earlier invocation had returned with a sum when this one was submitted
Calls == 1..MaxCalls
NoCall ==
  [pc |-> "none", a |-> <<>>, chain |-> 0, total |-> 0, stable |-> 0, result |-> Pending,
   alone |-> Sums(0, 0), overlapped |-> FALSE, after |-> FALSE]

NoToken == [t |-> "none"]
NoVerdict == [threw |-> FALSE, isStableToken |-> FALSE, isStable |-> FALSE, done |-> FALSE]

Tracking(t, s) == [tracked |-> TRUE, total |-> t, stable |-> s]
NotTracking == [tracked |-> FALSE, total |-> 0, stable |-> 0]

\* --------------------------------------------------------- wizard values

\* OG_DATA: two of its members (every member has the role Plasma OG)
CATT == <<"C","A","T","T">>
Lennart == <<"L","e","n","n","a","r","t">>
OG_DATA == << [name |-> CATT, role |-> "Plasma OG"], [name |-> Lennart, role |-> "Plasma OG"] >>

\* OG_DATA.find(x => x.name.toLowerCase() === name.toLowerCase())
Find(name) ==
  LET hits == { i \in 1..Len(OG_DATA) : toLowerCase(OG_DATA[i].name) = toLowerCase(name) }
  IN IF hits = {} THEN Undefined
     ELSE [t |-> "object", user |-> OG_DATA[CHOOSE i \in hits : \A j \in hits : i <= j]]

\* the options of roleSelect, the first one selected when the page loads
RoleOptions == { "Member", "Contributor" }
DefaultRole == "Member"
\* what the visitor types into discordInput
NicknameValues == { <<>>, <<" ">>, <<"c","a","t","t">>, <<" ","C","A","T","T">>, <<"b","o","b">> }

\* the text a glitch interval or a running reveal animation writes
Scrambled == "#$@%"

NoTimer == [set |-> FALSE, pending |-> FALSE, callback |-> "none", target |-> "", fresh |-> FALSE]
\* setTimeout(doReveal, 5000) of the next1 handler (fresh: history, the closure
\* belongs to the most recent next1 click or role selection)
DoRevealTimer(target) ==
  [set |-> TRUE, pending |-> TRUE, callback |-> "doReveal", target |-> target, fresh |-> TRUE]
\* the setTimeout of the roleSelect change handler, which reads roleSelect.value
\* when it fires
ChangeTimer ==
  [set |-> TRUE, pending |-> TRUE, callback |-> "change", target |-> "", fresh |-> TRUE]

\* the wizard before a nickname was submitted
WizardIdle ==
  /\ currentUser = Null
  /\ roleSelectValue = DefaultRole
  /\ roleText = [textContent |-> "", spinning |-> FALSE, revealed |-> FALSE]
  /\ next2Disabled = TRUE
  /\ manualRoleWrapHidden = TRUE
  /\ glitchTimer = Null
  /\ roleAutoTimer = NoTimer
  /\ roleClickHandlers = <<>>
  /\ reveals = <<>>
  /\ revealDone = FALSE
  /\ visits = 0

\* ------------------------------------------- history of the valid responses

\* an item the loop processes without an exception
WellFormedItem(it) == IsObject(it) /\ ~isStableTokenThrows(it)

\* the body carries the data structure: data.items is a list
HasItemList(body) == Truthy(body) /\ Truthy(GetData(body)) /\ GetItems(GetData(body)).t = "array"
ItemList(body) == GetItems(GetData(body)).elems

\* a valid response: every item of its list is well formed
ValidBody(body) ==
  HasItemList(body) /\ \A i \in 1..Len(ItemList(body)) : WellFormedItem(ItemList(body)[i])
\* the data structure is there and some item of it is not well formed, or items
\* is no list at all
MalformedBody(body) ==
  /\ Truthy(body) /\ Truthy(GetData(body)) /\ Truthy(GetItems(GetData(body)))
  /\ ~ValidBody(body)

FiniteQuote(it) == IsObject(it) /\ IsFinite(parseFloat(it.quote))
RECURSIVE QuoteSum(_, _)
QuoteSum(items, stableOnly) ==
  IF items = <<>> THEN 0
  ELSE LET it == Head(items)
           counts == FiniteQuote(it) /\ (stableOnly => isStableToken(it))
       IN (IF counts THEN parseFloat(it.quote).n ELSE 0) + QuoteSum(Tail(items), stableOnly)

QuoteKinds(body) ==
  IF ~HasItemList(body) THEN {}
  ELSE LET l == ItemList(body) IN
       {"finite" : i \in {j \in 1..Len(l) : FiniteQuote(l[j])}}
       \cup {"negative" : i \in {j \in 1..Len(l) : FiniteQuote(l[j]) /\ parseFloat(l[j].quote).n < 0}}

ExpectedAfter(body) ==
  IF ~expected.tracked \/ MalformedBody(body) THEN NotTracking
  ELSE IF ValidBody(body)
       THEN Tracking(expected.total + QuoteSum(ItemList(body), FALSE),
                     expected.stable + QuoteSum(ItemList(body), TRUE))
       ELSE expected

\* ------------------------------------------------- script.js: aggregation

\* (data && data.data && data.data.items) || []
itemsOf(data) ==
  IF Truthy(data) /\ Truthy(GetData(data)) /\ Truthy(GetItems(GetData(data)))
  THEN GetItems(GetData(data))
  ELSE Arr(<<>>)

\* the two accumulators are taken for each other
RECURSIVE sumItemsSwapped(_, _, _)
sumItemsSwapped(items, t, s) ==
  IF items = <<>> THEN [total |-> t, stable |-> s, threw |-> FALSE]
  ELSE LET it == Head(items) IN
       IF ~IsObject(it) THEN [total |-> t, stable |-> s, threw |-> TRUE]
       ELSE LET q == parseFloat(it.quote) IN
            IF ~IsFinite(q) THEN sumItemsSwapped(Tail(items), t, s)
            ELSE IF isStableTokenThrows(it)
                 THEN [total |-> t, stable |-> s + q.n, threw |-> TRUE]
                 ELSE sumItemsSwapped(Tail(items), IF isStableToken(it) THEN t + q.n ELSE t,
                                      s + q.n)

\* a finite quote is added to total only when the item is stable
RECURSIVE sumItemsTotalOfStableOnly(_, _, _)
sumItemsTotalOfStableOnly(items, t, s) ==
  IF items = <<>> THEN [total |-> t, stable |-> s, threw |-> FALSE]
  ELSE LET it == Head(items) IN
       IF ~IsObject(it) THEN [total |-> t, stable |-> s, threw |-> TRUE]
       ELSE LET q == parseFloat(it.quote) IN
            IF ~IsFinite(q) THEN sumItemsTotalOfStableOnly(Tail(items), t, s)
            ELSE IF isStableTokenThrows(it)
                 THEN [total |-> t, stable |-> s, threw |-> TRUE]
                 ELSE IF isStableToken(it)
                      THEN sumItemsTotalOfStableOnly(Tail(items), t + q.n, s + q.n)
                      ELSE sumItemsTotalOfStableOnly(Tail(items), t, s)

\* the for-of loop over the items, lines 286-292: the accumulators when it ends
\* and whether it ended by an exception
RECURSIVE sumItems(_, _, _)
sumItems(items, t, s) ==
  IF items = <<>> THEN [total |-> t, stable |-> s, threw |-> FALSE]
  ELSE LET it == Head(items) IN
       IF ~IsObject(it) THEN [total |-> t, stable |-> s, threw |-> TRUE]
       ELSE LET q == parseFloat(it.quote) IN
            IF ~IsFinite(q) THEN sumItems(Tail(items), t, s)
            ELSE IF isStableTokenThrows(it)
                 THEN [total |-> t + q.n, stable |-> s, threw |-> TRUE]
                 ELSE sumItems(Tail(items), t + q.n,
                               IF isStableToken(it) THEN s + q.n ELSE s)

\* the body of the try block once res.json() has resolved with data
processBody(data, t, s) ==
  LET items == itemsOf(data) IN
  IF items.t # "array" THEN [total |-> t, stable |-> s, threw |-> TRUE]
  ELSE sumItems(items.elems, t, s)

\* the promise rejects: the await in the click handler throws into its catch
gspThrows(m) ==
  /\ pc' = "done"
  /\ result' = Rejected(m)
  /\ stableResult' = Text("error")
  /\ alertMsg' = m

\* return total>0 ? (stable/total)*100 : 0, and the handler's continuation
gspReturns(t, s) ==
  /\ pc' = "done"
  /\ result' = Resolved(Percentage(s, t))
  /\ stableResult' = PercentText(Percentage(s, t))
  /\ alertMsg' = alertMsg

\* the loop moves on from the current network with accumulators t, s: the next
\* request is issued, or the function returns after the last network
gspNextChain(t, s) ==
  /\ total' = t
  /\ stable' = s
  /\ IF chain < Len(CHAINS)
     THEN /\ chain' = chain + 1
          /\ requests' = Append(requests, CHAINS[chain + 1])
          /\ inFlight' = (inFlight \ {CHAINS[chain]}) \cup {CHAINS[chain + 1]}
          /\ pc' = "fetch"
          /\ UNCHANGED <<result, stableResult, alertMsg>>
     ELSE /\ gspReturns(t, s)
          /\ inFlight' = inFlight \ {CHAINS[chain]}
          /\ UNCHANGED <<chain, requests>>

\* click on next4: the handler runs into getStablePercent up to its first await
Next4Click(value) ==
  /\ script = "script.js"
  /\ pc \in {"idle", "done"}
  /\ LET address == trim(OrEmpty(Str(value)).s) IN
     /\ a' = address
     /\ total' = 0
     /\ stable' = 0
     /\ expected' = Tracking(0, 0)
     /\ seen' = {}
     /\ walletInput' = value
     /\ IF address = <<>>
        THEN /\ gspThrows("EmptyAddress")
             /\ requests' = <<>>
             /\ inFlight' = {}
             /\ chain' = 0
        ELSE /\ pc' = "fetch"
             /\ result' = Pending
             /\ stableResult' = Text("...")
             /\ alertMsg' = ""
             /\ chain' = 1
             /\ requests' = <<CHAINS[1]>>
             /\ inFlight' = {CHAINS[1]}
  /\ UNCHANGED <<script, resultDiv, token, verdict, extVars>>

\* a rejected fetch ends the loop: the function returns what it has
gspFetchRejectsAborts ==
  /\ script = "script.js" /\ pc = "fetch"
  /\ gspReturns(total, stable)
  /\ inFlight' = inFlight \ {CHAINS[chain]}
  /\ UNCHANGED <<script, a, chain, total, stable, requests, resultDiv, expected, seen,
                 walletInput, token, verdict, extVars>>

\* await fetch(url) rejects (transport error, timeout): caught, next network
gspFetchRejects ==
  /\ script = "script.js" /\ pc = "fetch"
  /\ gspNextChain(total, stable)
  /\ UNCHANGED <<script, a, resultDiv, expected, seen, walletInput, token, verdict, extVars>>

\* a non-success status throws the sums so far away
gspFetchNotOkZeroes ==
  /\ script = "script.js" /\ pc = "fetch"
  /\ gspNextChain(0, 0)
  /\ UNCHANGED <<script, a, resultDiv, expected, seen, walletInput, token, verdict, extVars>>

\* after a non-success status the function waits for something that never comes
gspFetchNotOkWaits ==
  /\ script = "script.js" /\ pc = "fetch"
  /\ pc' = "stalled"
  /\ UNCHANGED <<script, a, chain, total, stable, requests, inFlight, result, stableResult,
                 alertMsg, resultDiv, expected, seen, walletInput, token, verdict, extVars>>

\* the response arrives with a non-success status: continue
gspFetchNotOk ==
  /\ script = "script.js" /\ pc = "fetch"
  /\ gspNextChain(total, stable)
  /\ UNCHANGED <<script, a, resultDiv, expected, seen, walletInput, token, verdict, extVars>>

\* the next network's request is issued while the body is still being read
gspFetchOkIssuesNext ==
  /\ script = "script.js" /\ pc = "fetch"
  /\ WellFormedAddr(a)
  /\ pc' = "json"
  /\ requests' = IF chain < Len(CHAINS) THEN Append(requests, CHAINS[chain + 1]) ELSE requests
  /\ inFlight' = IF chain < Len(CHAINS) THEN inFlight \cup {CHAINS[chain + 1]} ELSE inFlight
  /\ UNCHANGED <<script, a, chain, total, stable, result, stableResult,
                 alertMsg, resultDiv, expected, seen, walletInput, token, verdict, extVars>>

\* the response arrives with res.ok: res.json() is awaited
gspFetchOk ==
  /\ script = "script.js" /\ pc = "fetch"
  /\ WellFormedAddr(a)
  /\ pc' = "json"
  /\ UNCHANGED <<script, a, chain, total, stable, requests, inFlight, result, stableResult,
                 alertMsg, resultDiv, expected, seen, walletInput, token, verdict, extVars>>

\* the rejection of res.json() is not caught
gspJsonRejectsPropagates ==
  /\ script = "script.js" /\ pc = "json"
  /\ gspThrows("SyntaxError")
  /\ UNCHANGED <<script, a, chain, total, stable, requests, inFlight, resultDiv, expected, seen,
                 walletInput, token, verdict, extVars>>

\* await res.json() rejects (the body is no JSON): caught, next network
gspJsonRejects ==
  /\ script = "script.js" /\ pc = "json"
  /\ gspNextChain(total, stable)
  /\ UNCHANGED <<script, a, resultDiv, expected, seen, walletInput, token, verdict, extVars>>

\* await res.json() resolves with data: the items are summed, an exception in
\* the loop is caught with the accumulators as they are
gspJsonResolves(data) ==
  /\ script = "script.js" /\ pc = "json"
  /\ LET r == processBody(data, total, stable) IN gspNextChain(r.total, r.stable)
  /\ expected' = ExpectedAfter(data)
  /\ seen' = seen \cup QuoteKinds(data)
  /\ UNCHANGED <<script, a, resultDiv, walletInput, token, verdict, extVars>>

\* ------------------------------------------------- part_000: aggregation

\* the for-of loop over the items, lines 81-90
RECURSIVE sumBreakdownItems(_, _, _)
sumBreakdownItems(items, t, s) ==
  IF items = <<>> THEN [total |-> t, stable |-> s, threw |-> FALSE]
  ELSE LET item == Head(items) IN
       IF ~IsObject(item) THEN [total |-> t, stable |-> s, threw |-> TRUE]
       ELSE LET value == parseFloat(item.quote) IN
            IF ~IsFinite(value) THEN sumBreakdownItems(Tail(items), t, s)
            ELSE IF isStableThrows(item)
                 THEN [total |-> t + value.n, stable |-> s, threw |-> TRUE]
                 ELSE sumBreakdownItems(Tail(items), t + value.n,
                                        IF isStable(item) THEN s + value.n ELSE s)

\* the promise rejects: handleCheck's catch shows err.message
gpbThrows(m) ==
  /\ pc' = "done"
  /\ result' = Rejected(m)
  /\ resultDiv' = ErrorText(m)

\* return { total, stable, percentage }, and handleCheck's continuation
gpbReturns(t, s) ==
  LET r == [total |-> t, stable |-> s, percentage |-> Percentage(s, t)] IN
  /\ pc' = "done"
  /\ result' = Resolved(r)
  /\ resultDiv' = BreakdownText(r)

\* click on checkButton: handleCheck runs into getPortfolioBreakdown up to its
\* first await
CheckButtonClick(value) ==
  /\ script = "part_000"
  /\ pc \in {"idle", "done"}
  /\ LET trimmed == trim(value) IN
     /\ a' = trimmed
     /\ total' = 0
     /\ stable' = 0
     /\ expected' = Tracking(0, 0)
     /\ seen' = {}
     /\ walletInput' = value
     /\ IF trimmed = <<>>
        THEN /\ gpbThrows("EmptyAddress")
             /\ requests' = <<>>
        ELSE /\ pc' = "fetch"
             /\ result' = Pending
             /\ resultDiv' = Text("")
             /\ requests' = <<"allchains">>
  /\ UNCHANGED <<script, chain, inFlight, stableResult, alertMsg, token, verdict, extVars>>

\* await fetch(url, ...) rejects: the rejection propagates to handleCheck
gpbFetchRejects ==
  /\ script = "part_000" /\ pc = "fetch"
  /\ gpbThrows("FetchFailed")
  /\ UNCHANGED <<script, a, chain, total, stable, requests, inFlight, stableResult, alertMsg,
                 expected, seen, walletInput, token, verdict, extVars>>

\* a non-success status is skipped as in getStablePercent
gpbFetchNotOkSkips ==
  /\ script = "part_000" /\ pc = "fetch"
  /\ gpbReturns(0, 0)
  /\ UNCHANGED <<script, a, chain, total, stable, requests, inFlight, stableResult, alertMsg,
                 expected, seen, walletInput, token, verdict, extVars>>

\* if (!response.ok) throw
gpbFetchNotOk ==
  /\ script = "part_000" /\ pc = "fetch"
  /\ gpbThrows("RequestError")
  /\ UNCHANGED <<script, a, chain, total, stable, requests, inFlight, stableResult, alertMsg,
                 expected, seen, walletInput, token, verdict, extVars>>

gpbFetchOk ==
  /\ script = "part_000" /\ pc = "fetch"
  /\ WellFormedAddr(a)
  /\ pc' = "json"
  /\ UNCHANGED <<script, a, chain, total, stable, requests, inFlight, result, stableResult,
                 alertMsg, resultDiv, expected, seen, walletInput, token, verdict, extVars>>

\* await response.json() rejects
gpbJsonRejects ==
  /\ script = "part_000" /\ pc = "json"
  /\ gpbThrows("SyntaxError")
  /\ UNCHANGED <<script, a, chain, total, stable, requests, inFlight, stableResult, alertMsg,
                 expected, seen, walletInput, token, verdict, extVars>>

\* await response.json() resolves with resData
gpbJsonResolves(resData) ==
  /\ script = "part_000" /\ pc = "json"
  /\ expected' = ExpectedAfter(resData)
  /\ seen' = seen \cup QuoteKinds(resData)
  /\ IF ~Truthy(resData) \/ ~Truthy(GetData(resData))
     THEN gpbThrows("BadServerResponse") /\ UNCHANGED <<total, stable>>
     ELSE LET raw == GetItems(GetData(resData))
              items == IF Truthy(raw) THEN raw ELSE Arr(<<>>)
          IN IF items.t # "array"
             THEN gpbThrows("TypeError") /\ UNCHANGED <<total, stable>>
             ELSE LET r == sumBreakdownItems(items.elems, 0, 0) IN
                  /\ total' = r.total
                  /\ stable' = r.stable
                  /\ IF r.threw THEN gpbThrows("TypeError") ELSE gpbReturns(r.total, r.stable)
  /\ UNCHANGED <<script, a, chain, requests, inFlight, stableResult, alertMsg, walletInput,
                 token, verdict, extVars>>

\* ------------------------------------------------------------ specification

Init ==
  /\ script \in {"script.js", "part_000"}
  /\ pc = "idle"
  /\ a = <<>>
  /\ chain = 0
  /\ total = 0
  /\ stable = 0
  /\ requests = <<>>
  /\ inFlight = {}
  /\ result = Pending
  /\ stableResult = Text("")
  /\ alertMsg = ""
  /\ resultDiv = Text("")
  /\ expected = Tracking(0, 0)
  /\ seen = {}
  /\ walletInput = <<>>
  /\ token = NoToken
  /\ verdict = NoVerdict
  /\ itemList = <<>>
  /\ pos = 0
  /\ loopPc = "idle"
  /\ trail = <<>>
  /\ calls = [i \in Calls |-> NoCall]
  /\ submitted = 0
  /\ step = 4
  /\ WizardIdle

Next ==
  \/ \E value \in WalletValues : Next4Click(value)
  \/ gspFetchRejects
  \/ gspFetchNotOk
  \/ gspFetchOk
  \/ gspJsonRejects
  \/ \E data \in Bodies : gspJsonResolves(data)
  \/ \E value \in WalletValues : CheckButtonClick(value)
  \/ gpbFetchRejects
  \/ gpbFetchNotOk
  \/ gpbFetchOk
  \/ gpbJsonRejects
  \/ \E resData \in Bodies : gpbJsonResolves(resData)

Spec == Init /\ [][Next]_vars

\* The platform settles every promise the function awaits: a fetch ends with a
\* response or a rejection (the network stack gives up on a silent server), the
\* reading of a body ends with a value or a rejection, and the event loop then
\* runs the continuation.
FetchSettles == gspFetchRejects \/ gspFetchNotOk \/ gspFetchOk
\* Whether an aggregation ends does not depend on how many items a body carries
\* (the item loop runs over a finite list between two awaits): the bodies with
\* at most one item cover every way a body is processed.
LiveBodies == { b \in Bodies : HasItemList(b) => Len(ItemList(b)) <= 1 }
JsonSettles == gspJsonRejects \/ \E data \in LiveBodies : gspJsonResolves(data)

NextLive ==
  \/ \E value \in WalletValues : Next4Click(value)
  \/ gspFetchRejects
  \/ gspFetchNotOk
  \/ gspFetchOk
  \/ gspJsonRejects
  \/ \E data \in LiveBodies : gspJsonResolves(data)
  \/ \E value \in WalletValues : CheckButtonClick(value)
  \/ gpbFetchRejects
  \/ gpbFetchNotOk
  \/ gpbFetchOk
  \/ gpbJsonRejects
  \/ \E resData \in LiveBodies : gpbJsonResolves(resData)

SpecLive == Init /\ [][NextLive]_vars /\ WF_vars(FetchSettles) /\ WF_vars(JsonSettles)

\* ------------------------------------------------- the classifiers alone

\* symbols and names are made of these pieces
Pieces == { USD, STABLE, <<"u","s","d">>, <<"X">>, <<" ">>, <<"_">>, <<"-">> }
RECURSIVE PieceStrings(_)
PieceStrings(n) ==
  IF n = 0 THEN { <<>> }
  ELSE LET shorter == PieceStrings(n - 1)
       IN shorter \cup { s \o p : s \in shorter, p \in Pieces }

CUSTODY == <<"C","U","S","T","O","D","Y">>
USDX == <<"U","S","D","X">>
SAI == <<"S","A","I">>
SymValues ==
  { Undefined, Num(7) }
  \cup { Str(s) : s \in PieceStrings(MaxSymPieces) \cup { USDC, <<"d","a","i">>, SAI, ETH } }
NameValues ==
  { Undefined }
  \cup { Str(s) : s \in PieceStrings(MaxNamePieces) \cup { CUSTODY, UsdCoin, Ether } }
Tokens == { Item(sym, name, Num(100)) : sym \in SymValues, name \in NameValues }

\* both classifiers are applied to the token
Classify ==
  /\ ~verdict.done
  /\ verdict' =
       IF isStableTokenThrows(token)
       THEN [threw |-> TRUE, isStableToken |-> FALSE, isStable |-> FALSE, done |-> TRUE]
       ELSE [threw |-> FALSE, isStableToken |-> isStableToken(token),
             isStable |-> isStable(token), done |-> TRUE]
  /\ UNCHANGED <<token>>
  /\ UNCHANGED <<aggVars, extVars>>

InitClassify ==
  /\ script = "none"
  /\ pc = "idle"
  /\ a = <<>>
  /\ chain = 0
  /\ total = 0
  /\ stable = 0
  /\ requests = <<>>
  /\ inFlight = {}
  /\ result = Pending
  /\ stableResult = Text("")
  /\ alertMsg = ""
  /\ resultDiv = Text("")
  /\ expected = Tracking(0, 0)
  /\ seen = {}
  /\ walletInput = <<>>
  /\ token \in Tokens
  /\ verdict = NoVerdict
  /\ itemList = <<>>
  /\ pos = 0
  /\ loopPc = "idle"
  /\ trail = <<>>
  /\ calls = [i \in Calls |-> NoCall]
  /\ submitted = 0
  /\ step = 4
  /\ WizardIdle

NextClassify == Classify

SpecClassify == InitClassify /\ [][NextClassify]_vars

\* ------------------------------------------------- the item loop alone

\* the quotes an item can carry: a number, a numeric string, absent, null,
\* "N/A", the empty string, an overflowed number, the string "Infinity"
Hundred == <<"1","0","0">>
QuoteValues ==
  { Num(100), Num(0 - 100), Str(Hundred), Undefined, Null, Str(NotAvailable), Str(<<>>),
    Infinity, Str(InfinityWord) }
LoopItems ==
  { Item(Str(sym), Str(Ether), q) : sym \in {USDC, ETH}, q \in QuoteValues }
  \cup { Item(Num(7), Str(Ether), Num(100)), Null }

\* the accumulators when the loop over a network's items begins: those of a
\* first network, and those left by the networks before (script.js only)
StartSums == { Sums(0, 0), Sums(300, 100) }

\* one iteration of the for-of loop (script.js lines 286-292, part_000 lines
\* 81-90) on the next item of the list
ItemStep ==
  /\ loopPc = "run"
  /\ pos < Len(itemList)
  /\ LET it == itemList[pos + 1]
         r == IF script = "script.js" THEN sumItems(<<it>>, total, stable)
              ELSE sumBreakdownItems(<<it>>, total, stable)
     IN /\ total' = r.total
        /\ stable' = r.stable
        /\ loopPc' = IF r.threw THEN "threw" ELSE "run"
        /\ trail' = Append(trail, Sums(r.total, r.stable))
  /\ pos' = pos + 1
  /\ UNCHANGED <<script, pc, a, chain, requests, inFlight, result, stableResult, alertMsg,
                 resultDiv, expected, seen, walletInput, token, verdict, itemList,
                 callVars, step, wizVars>>

InitItems ==
  /\ script \in {"script.js", "part_000"}
  /\ pc = "json"
  /\ a = <<>>
  /\ chain = 0
  /\ \E start \in StartSums :
       /\ script = "part_000" => start = Sums(0, 0)
       /\ total = start.total
       /\ stable = start.stable
       /\ trail = <<start>>
  /\ requests = <<>>
  /\ inFlight = {}
  /\ result = Pending
  /\ stableResult = Text("")
  /\ alertMsg = ""
  /\ resultDiv = Text("")
  /\ expected = Tracking(0, 0)
  /\ seen = {}
  /\ walletInput = <<>>
  /\ token = NoToken
  /\ verdict = NoVerdict
  /\ itemList \in ListsUpTo(LoopItems, MaxItems)
  /\ pos = 0
  /\ loopPc = "run"
  /\ calls = [i \in Calls |-> NoCall]
  /\ submitted = 0
  /\ step = 4
  /\ WizardIdle

NextItems == ItemStep

SpecItems == InitItems /\ [][NextItems]_vars

\* ----------------------------------------------- checks submitted again

\* a well-formed address, and what the field holds at a submission
Address == <<"0", "x">> \o [i \in 1..HexDigits |-> "0"]
ResubmitValues == { <<>>, Address }

\* a network's answer: no data, or a portfolio of 100 USD in USDC and 100 in ETH
Portfolio ==
  Envelope(Data(Arr(<< Item(Str(USDC), Str(UsdCoin), Num(100)),
                       Item(Str(ETH), Str(Ether), Num(100)) >>)))
CallBodies == { Null, Portfolio }

InFlightCall(i) == calls[i].pc \in {"fetch", "json"}

\* getStablePercent starts from the sums the previous invocation left
StartCallKeepsSums(id, address) ==
  calls' = [j \in Calls |->
    IF j = id
    THEN IF address = <<>>
         THEN [NoCall EXCEPT !.pc = "done", !.result = Rejected("EmptyAddress")]
         ELSE [NoCall EXCEPT !.pc = "fetch", !.a = address, !.chain = 1,
                             !.total = IF id > 1 THEN calls[id - 1].total ELSE 0,
                             !.stable = IF id > 1 THEN calls[id - 1].stable ELSE 0,
                             !.overlapped = \E k \in Calls : InFlightCall(k),
                             !.after = \E k \in Calls :
                                          calls[k].pc = "done" /\ calls[k].total > 0]
    ELSE IF address # <<>> /\ InFlightCall(j)
         THEN [calls[j] EXCEPT !.overlapped = TRUE]
         ELSE calls[j]]

\* the aggregator is entered for submission id: it throws on an empty address
\* and issues its first request otherwise
StartCall(id, address) ==
  calls' = [j \in Calls |->
    IF j = id
    THEN IF address = <<>>
         THEN [NoCall EXCEPT !.pc = "done", !.result = Rejected("EmptyAddress")]
         ELSE [NoCall EXCEPT !.pc = "fetch", !.a = address, !.chain = 1,
                             !.overlapped = \E k \in Calls : InFlightCall(k),
                             !.after = \E k \in Calls :
                                          calls[k].pc = "done" /\ calls[k].total > 0]
    ELSE IF address # <<>> /\ InFlightCall(j)
         THEN [calls[j] EXCEPT !.overlapped = TRUE]
         ELSE calls[j]]

\* click on next4 while step 4 is shown, whatever earlier checks are doing
Next4ClickCall(value) ==
  /\ script = "script.js"
  /\ step = 4
  /\ submitted < MaxCalls
  /\ LET address == trim(OrEmpty(Str(value)).s) IN
     /\ StartCall(submitted + 1, address)
     /\ IF address = <<>>
        THEN stableResult' = Text("error") /\ alertMsg' = "EmptyAddress"
        ELSE stableResult' = Text("...") /\ alertMsg' = ""
  /\ submitted' = submitted + 1
  /\ step' = 5
  /\ UNCHANGED <<script, resultDiv, singleVars, clsVars, loopVars, wizVars>>

\* click on back5: step 4 and its next4 button are shown again (followed here
\* only while another check can be submitted)
Back5Click ==
  /\ script = "script.js"
  /\ step = 5
  /\ submitted < MaxCalls
  /\ step' = 4
  /\ UNCHANGED <<script, stableResult, alertMsg, resultDiv, singleVars, clsVars, loopVars,
                 callVars, wizVars>>

\* invocation i moves on from its current network with accumulators t, s (al:
\* the history sums); after the last network it returns and its click
\* handler's continuation writes the percentage
gspCallNext(i, t, s, al) ==
  IF calls[i].chain < Len(CHAINS)
  THEN /\ calls' = [calls EXCEPT ![i].chain = @ + 1, ![i].pc = "fetch",
                                 ![i].total = t, ![i].stable = s, ![i].alone = al]
       /\ UNCHANGED stableResult
  ELSE /\ calls' = [calls EXCEPT ![i].pc = "done", ![i].total = t, ![i].stable = s,
                                 ![i].alone = al,
                                 ![i].result = Resolved(Percentage(s, t))]
       /\ stableResult' = PercentText(Percentage(s, t))

gspCallFetchRejects(i) ==
  /\ script = "script.js" /\ calls[i].pc = "fetch"
  /\ gspCallNext(i, calls[i].total, calls[i].stable, calls[i].alone)
  /\ UNCHANGED <<script, alertMsg, resultDiv, singleVars, clsVars, loopVars, submitted, step,
                 wizVars>>

gspCallFetchNotOk(i) ==
  /\ script = "script.js" /\ calls[i].pc = "fetch"
  /\ gspCallNext(i, calls[i].total, calls[i].stable, calls[i].alone)
  /\ UNCHANGED <<script, alertMsg, resultDiv, singleVars, clsVars, loopVars, submitted, step,
                 wizVars>>

gspCallFetchOk(i) ==
  /\ script = "script.js" /\ calls[i].pc = "fetch"
  /\ WellFormedAddr(calls[i].a)
  /\ calls' = [calls EXCEPT ![i].pc = "json"]
  /\ UNCHANGED <<script, stableResult, alertMsg, resultDiv, singleVars, clsVars, loopVars,
                 submitted, step, wizVars>>

gspCallJsonRejects(i) ==
  /\ script = "script.js" /\ calls[i].pc = "json"
  /\ gspCallNext(i, calls[i].total, calls[i].stable, calls[i].alone)
  /\ UNCHANGED <<script, alertMsg, resultDiv, singleVars, clsVars, loopVars, submitted, step,
                 wizVars>>

\* total and stable are one pair of variables for all invocations, set to zero
\* by the most recent one: invocation i adds its items to them
gspCallJsonResolvesShared(i, data) ==
  /\ script = "script.js" /\ calls[i].pc = "json"
  /\ LET r == processBody(data, calls[submitted].total, calls[submitted].stable)
         al == processBody(data, calls[i].alone.total, calls[i].alone.stable)
     IN gspCallNext(i, r.total, r.stable, Sums(al.total, al.stable))
  /\ UNCHANGED <<script, alertMsg, resultDiv, singleVars, clsVars, loopVars, submitted, step,
                 wizVars>>

\* await res.json() of invocation i resolves with data
gspCallJsonResolves(i, data) ==
  /\ script = "script.js" /\ calls[i].pc = "json"
  /\ LET r == processBody(data, calls[i].total, calls[i].stable)
         al == processBody(data, calls[i].alone.total, calls[i].alone.stable)
     IN gspCallNext(i, r.total, r.stable, Sums(al.total, al.stable))
  /\ UNCHANGED <<script, alertMsg, resultDiv, singleVars, clsVars, loopVars, submitted, step,
                 wizVars>>

\* click on checkButton: handleCheck clears #result and enters
\* getPortfolioBreakdown, whatever earlier checks are doing
handleCheckCall(value) ==
  /\ script = "part_000"
  /\ submitted < MaxCalls
  /\ LET trimmed == trim(value) IN
     /\ StartCall(submitted + 1, trimmed)
     /\ resultDiv' = IF trimmed = <<>> THEN ErrorText("EmptyAddress") ELSE Text("")
  /\ submitted' = submitted + 1
  /\ UNCHANGED <<script, stableResult, alertMsg, singleVars, clsVars, loopVars, step, wizVars>>

\* getPortfolioBreakdown of submission i throws m: its handleCheck shows m
gpbCallThrows(i, m) ==
  /\ calls' = [calls EXCEPT ![i].pc = "done", ![i].result = Rejected(m)]
  /\ resultDiv' = ErrorText(m)

gpbCallFetchRejects(i) ==
  /\ script = "part_000" /\ calls[i].pc = "fetch"
  /\ gpbCallThrows(i, "FetchFailed")
  /\ UNCHANGED <<script, stableResult, alertMsg, singleVars, clsVars, loopVars, submitted, step,
                 wizVars>>

gpbCallFetchNotOk(i) ==
  /\ script = "part_000" /\ calls[i].pc = "fetch"
  /\ gpbCallThrows(i, "RequestError")
  /\ UNCHANGED <<script, stableResult, alertMsg, singleVars, clsVars, loopVars, submitted, step,
                 wizVars>>

gpbCallFetchOk(i) ==
  /\ script = "part_000" /\ calls[i].pc = "fetch"
  /\ WellFormedAddr(calls[i].a)
  /\ calls' = [calls EXCEPT ![i].pc = "json"]
  /\ UNCHANGED <<script, stableResult, alertMsg, resultDiv, singleVars, clsVars, loopVars,
                 submitted, step, wizVars>>

gpbCallJsonRejects(i) ==
  /\ script = "part_000" /\ calls[i].pc = "json"
  /\ gpbCallThrows(i, "SyntaxError")
  /\ UNCHANGED <<script, stableResult, alertMsg, singleVars, clsVars, loopVars, submitted, step,
                 wizVars>>

\* await response.json() of submission i resolves with resData
gpbCallJsonResolves(i, resData) ==
  /\ script = "part_000" /\ calls[i].pc = "json"
  /\ IF ~Truthy(resData) \/ ~Truthy(GetData(resData))
     THEN gpbCallThrows(i, "BadServerResponse")
     ELSE LET raw == GetItems(GetData(resData))
              items == IF Truthy(raw) THEN raw ELSE Arr(<<>>)
              r == sumBreakdownItems(items.elems, 0, 0)
              value == [total |-> r.total, stable |-> r.stable,
                        percentage |-> Percentage(r.stable, r.total)]
          IN /\ calls' = [calls EXCEPT ![i].pc = "done", ![i].total = r.total,
                                       ![i].stable = r.stable,
                                       ![i].alone = Sums(r.total, r.stable),
                                       ![i].result = Resolved(value)]
             /\ resultDiv' = BreakdownText(value)
  /\ UNCHANGED <<script, stableResult, alertMsg, singleVars, clsVars, loopVars, submitted, step,
                 wizVars>>

InitCalls ==
  /\ script \in {"script.js", "part_000"}
  /\ pc = "idle"
  /\ a = <<>>
  /\ chain = 0
  /\ total = 0
  /\ stable = 0
  /\ requests = <<>>
  /\ inFlight = {}
  /\ result = Pending
  /\ stableResult = Text("")
  /\ alertMsg = ""
  /\ resultDiv = Text("")
  /\ expected = Tracking(0, 0)
  /\ seen = {}
  /\ walletInput = <<>>
  /\ token = NoToken
  /\ verdict = NoVerdict
  /\ itemList = <<>>
  /\ pos = 0
  /\ loopPc = "idle"
  /\ trail = <<>>
  /\ calls = [i \in Calls |-> NoCall]
  /\ submitted = 0
  /\ step = 4
  /\ WizardIdle

NextCalls ==
  \/ \E value \in ResubmitValues : Next4ClickCall(value)
  \/ Back5Click
  \/ \E i \in Calls : gspCallFetchRejects(i)
  \/ \E i \in Calls : gspCallFetchNotOk(i)
  \/ \E i \in Calls : gspCallFetchOk(i)
  \/ \E i \in Calls : gspCallJsonRejects(i)
  \/ \E i \in Calls, data \in CallBodies : gspCallJsonResolves(i, data)
  \/ \E value \in ResubmitValues : handleCheckCall(value)
  \/ \E i \in Calls : gpbCallFetchRejects(i)
  \/ \E i \in Calls : gpbCallFetchNotOk(i)
  \/ \E i \in Calls : gpbCallFetchOk(i)
  \/ \E i \in Calls : gpbCallJsonRejects(i)
  \/ \E i \in Calls, resData \in CallBodies : gpbCallJsonResolves(i, resData)

SpecCalls == InitCalls /\ [][NextCalls]_vars

\* ------------------------------------------------- step 2 of the wizard

\* setInterval of startEndlessGlitch
GlitchInterval(target) == [t |-> "interval", target |-> target]
\* a listener added to roleText by a next1 click: it calls that click's doReveal
ClickHandler(target) == [target |-> target, fresh |-> TRUE]
\* a running glitchScrambleReveal(finalText, roleText) and what its then does
Reveal(finalText, then, fresh) == [finalText |-> finalText, then |-> then, fresh |-> fresh]
\* history: the closures and animations of before the most recent next1 click
\* or role selection
Stale(q) == [i \in 1..Len(q) |-> [q[i] EXCEPT !.fresh = FALSE]]

\* clearRoleTimers()
clearRoleTimers(timer) == IF timer.set THEN NoTimer ELSE timer

\* click on next1
Next1Click(value) ==
  /\ script = "script.js"
  /\ step = 1
  /\ visits < MaxVisits
  /\ LET name == trim(value) IN
     IF name = <<>>
     THEN /\ alertMsg' = "Enter nickname"
          /\ UNCHANGED <<step, wizVars>>
     ELSE LET user == Find(name)
              target == IF Truthy(user) THEN user.user.role ELSE roleSelectValue
          IN /\ currentUser' = user
             /\ step' = 2
             /\ roleText' = [textContent |-> "...", spinning |-> TRUE, revealed |-> FALSE]
             /\ next2Disabled' = TRUE
             /\ manualRoleWrapHidden' = Truthy(user)
             /\ glitchTimer' = GlitchInterval(target)
             /\ roleAutoTimer' = DoRevealTimer(target)
             /\ roleClickHandlers' = Append(Stale(roleClickHandlers), ClickHandler(target))
             /\ reveals' = Stale(reveals)
             /\ revealDone' = FALSE
             /\ visits' = visits + 1
             /\ UNCHANGED <<alertMsg, roleSelectValue>>
  /\ UNCHANGED <<script, stableResult, resultDiv, singleVars, clsVars, loopVars, callVars>>

\* the visitor picks another option of roleSelect
RoleSelectChange(v) ==
  /\ script = "script.js"
  /\ step = 2
  /\ ~manualRoleWrapHidden
  /\ v # roleSelectValue
  /\ roleSelectValue' = v
  /\ IF roleText.revealed
     THEN UNCHANGED <<glitchTimer, roleAutoTimer, roleClickHandlers, reveals, revealDone>>
     ELSE /\ glitchTimer' = GlitchInterval(v)
          /\ roleAutoTimer' = ChangeTimer
          /\ roleClickHandlers' = Stale(roleClickHandlers)
          /\ reveals' = Stale(reveals)
          /\ revealDone' = FALSE
  /\ UNCHANGED <<script, stableResult, alertMsg, resultDiv, singleVars, clsVars, loopVars,
                 callVars, step, currentUser, roleText, next2Disabled, manualRoleWrapHidden,
                 visits>>

\* click on roleText: every listener still registered runs its doReveal
RoleTextClick ==
  /\ script = "script.js"
  /\ step = 2
  /\ roleClickHandlers # <<>>
  /\ roleAutoTimer' = clearRoleTimers(roleAutoTimer)
  /\ glitchTimer' = Null
  /\ roleText' = [roleText EXCEPT !.spinning = FALSE]
  /\ reveals' = reveals \o [i \in 1..Len(roleClickHandlers) |->
                              Reveal(roleClickHandlers[i].target, "doReveal",
                                     roleClickHandlers[i].fresh)]
  /\ roleClickHandlers' = <<>>
  /\ UNCHANGED <<script, stableResult, alertMsg, resultDiv, singleVars, clsVars, loopVars,
                 callVars, step, currentUser, roleSelectValue, next2Disabled,
                 manualRoleWrapHidden, revealDone, visits>>

\* roleAutoTimer fires after 5000 ms: an animation of 900 ms that was running
\* when the timer was set has finished by then
RoleAutoTimerFires ==
  /\ script = "script.js"
  /\ roleAutoTimer.pending
  /\ reveals = <<>>
  /\ glitchTimer' = Null
  /\ IF roleAutoTimer.callback = "doReveal"
     THEN /\ roleAutoTimer' = NoTimer
          /\ roleText' = [roleText EXCEPT !.spinning = FALSE]
          /\ reveals' = <<Reveal(roleAutoTimer.target, "doReveal", roleAutoTimer.fresh)>>
     ELSE /\ roleAutoTimer' = [roleAutoTimer EXCEPT !.pending = FALSE]
          /\ roleText' = roleText
          /\ reveals' = <<Reveal(roleSelectValue, "change", roleAutoTimer.fresh)>>
  /\ UNCHANGED <<script, stableResult, alertMsg, resultDiv, singleVars, clsVars, loopVars,
                 callVars, step, currentUser, roleSelectValue, next2Disabled,
                 manualRoleWrapHidden, roleClickHandlers, revealDone, visits>>

\* the interval of startEndlessGlitch writes a scrambled text every 60 ms
GlitchTick ==
  /\ script = "script.js"
  /\ glitchTimer # Null
  /\ roleText' = [roleText EXCEPT !.textContent = Scrambled]
  /\ UNCHANGED <<script, stableResult, alertMsg, resultDiv, singleVars, clsVars, loopVars,
                 callVars, step, currentUser, roleSelectValue, next2Disabled,
                 manualRoleWrapHidden, glitchTimer, roleAutoTimer, roleClickHandlers, reveals,
                 revealDone, visits>>

\* a frame of a running glitchScrambleReveal with p < 1
RevealFrame ==
  /\ script = "script.js"
  /\ reveals # <<>>
  /\ roleText' = [roleText EXCEPT !.textContent = Scrambled]
  /\ UNCHANGED <<script, stableResult, alertMsg, resultDiv, singleVars, clsVars, loopVars,
                 callVars, step, currentUser, roleSelectValue, next2Disabled,
                 manualRoleWrapHidden, glitchTimer, roleAutoTimer, roleClickHandlers, reveals,
                 revealDone, visits>>

\* the last frame of the oldest running glitchScrambleReveal (all last 900 ms):
\* it writes the final text and resolves, and the then of its caller runs
RevealCompletes ==
  /\ script = "script.js"
  /\ reveals # <<>>
  /\ LET r == Head(reveals) IN
     /\ roleText' = [roleText EXCEPT !.textContent = r.finalText,
                                     !.revealed = (r.then = "doReveal") \/ @]
     /\ revealDone' = (revealDone \/ r.fresh)
  /\ next2Disabled' = FALSE
  /\ reveals' = Tail(reveals)
  /\ UNCHANGED <<script, stableResult, alertMsg, resultDiv, singleVars, clsVars, loopVars,
                 callVars, step, currentUser, roleSelectValue, manualRoleWrapHidden,
                 glitchTimer, roleAutoTimer, roleClickHandlers, visits>>

\* click on back2
Back2Click ==
  /\ script = "script.js"
  /\ step = 2
  /\ roleAutoTimer' = clearRoleTimers(roleAutoTimer)
  /\ glitchTimer' = Null
  /\ roleText' = [roleText EXCEPT !.spinning = FALSE]
  /\ step' = 1
  /\ UNCHANGED <<script, stableResult, alertMsg, resultDiv, singleVars, clsVars, loopVars,
                 callVars, currentUser, roleSelectValue, next2Disabled, manualRoleWrapHidden,
                 roleClickHandlers, reveals, revealDone, visits>>

InitWizard ==
  /\ script = "script.js"
  /\ pc = "idle"
  /\ a = <<>>
  /\ chain = 0
  /\ total = 0
  /\ stable = 0
  /\ requests = <<>>
  /\ inFlight = {}
  /\ result = Pending
  /\ stableResult = Text("")
  /\ alertMsg = ""
  /\ resultDiv = Text("")
  /\ expected = Tracking(0, 0)
  /\ seen = {}
  /\ walletInput = <<>>
  /\ token = NoToken
  /\ verdict = NoVerdict
  /\ itemList = <<>>
  /\ pos = 0
  /\ loopPc = "idle"
  /\ trail = <<>>
  /\ calls = [i \in Calls |-> NoCall]
  /\ submitted = 0
  /\ step = 1
  /\ WizardIdle

NextWizard ==
  \/ \E value \in NicknameValues : Next1Click(value)
  \/ \E v \in RoleOptions : RoleSelectChange(v)
  \/ RoleTextClick
  \/ RoleAutoTimerFires
  \/ GlitchTick
  \/ RevealFrame
  \/ RevealCompletes
  \/ Back2Click

SpecWizard == InitWizard /\ [][NextWizard]_vars

\* ------------------------------------------------------------ properties

IsBlank(s) == \A i \in 1..Len(s) : s[i] = " "
Started == pc # "idle"
PerChain == script = "script.js"
CrossChain == script = "part_000"

\* C1: while every network so far answered with a valid response, a non-success
\* status, a rejected fetch or a body without the data structure, the
\* accumulators are the sums over the items of the valid responses alone, the
\* promise is not rejected, and getStablePercent returns the percentage of
\* exactly those sums.
C1_PartialFailureTolerance ==
  (PerChain /\ Started /\ a # <<>> /\ expected.tracked) =>
    /\ total = expected.total
    /\ stable = expected.stable
    /\ result.kind # "rejected"
    /\ pc = "done" => result = Resolved(Percentage(expected.stable, expected.total))

\* all seven networks were queried, the valid responses add up to one 100 USD
\* stable item, and 100% is returned
C1_Witness ==
  /\ PerChain /\ pc = "done" /\ Len(requests) = Len(CHAINS)
  /\ expected = Tracking(100, 100)
  /\ result = Resolved([num |-> 10000, den |-> 100])

\* C2: for an address field that is empty or whitespace only, the aggregator of
\* either script fails with an error and the invocation issues no request.
C2_EmptyInputRejected ==
  (Started /\ IsBlank(walletInput)) =>
    /\ pc = "done"
    /\ result = Rejected("EmptyAddress")
    /\ requests = <<>>

\* a whitespace-only address was submitted and rejected without a request
C2_Witness ==
  /\ PerChain /\ pc = "done"
  /\ walletInput = <<" ", " ">>
  /\ result.kind = "rejected"
  /\ requests = <<>>

\* C3: once the address has passed validation, the promise of getStablePercent
\* is never rejected, and when the function is done it is resolved with a number.
C3_NeverFailsPastValidation ==
  (PerChain /\ Started /\ ~IsBlank(walletInput)) =>
    /\ result.kind # "rejected"
    /\ pc = "done" => (result.kind = "resolved" /\ result.value.den > 0)

\* an invocation in which some network's items raised an exception has resolved
C3_Witness ==
  /\ PerChain /\ pc = "done" /\ ~IsBlank(walletInput)
  /\ ~expected.tracked
  /\ result.kind = "resolved"

\* the per-network step of getStablePercent ends in a failure: a rejected fetch,
\* a non-success status, a rejected json(), a body without the data field, or
\* an exception raised while the items are processed
NetworkStepFails ==
  /\ PerChain
  /\ \/ gspFetchRejects
     \/ gspFetchNotOk
     \/ gspJsonRejects
     \/ \E data \in Bodies :
          /\ gspJsonResolves(data)
          /\ (~Truthy(GetData(data)) \/ processBody(data, total, stable).threw)

\* C4: a network whose processing fails leaves total and stable as they were
\* before its request was issued.
C4_FailedNetworkContributesNothing ==
  [][NetworkStepFails => (total' = total /\ stable' = stable)]_vars

SumsInRange(t, s) == t >= 0 /\ 0 <= s /\ s <= t

\* C5 as stated: at every point total >= 0 and 0 <= stable <= total, in the
\* accumulators and in the {total, stable} getPortfolioBreakdown returns.
C5_SumsInRange ==
  /\ SumsInRange(total, stable)
  /\ (CrossChain /\ result.kind = "resolved") => SumsInRange(result.value.total, result.value.stable)

\* C5 amended: while no item received has a negative quote, total >= 0 and
\* 0 <= stable <= total, in the accumulators and in the returned {total, stable}.
C5_SumsInRangeWithoutNegativeQuotes ==
  "negative" \notin seen => C5_SumsInRange

\* an aggregation without negative quotes has summed 200 USD, 100 of them stable
C5_Witness ==
  /\ pc = "done" /\ "negative" \notin seen
  /\ total = 200 /\ stable = 100

\* the percentage the aggregator returned
ReturnedPercentage == IF PerChain THEN result.value ELSE result.value.percentage

C7_ZeroTotal ==
  (PerChain /\ pc = "done" /\ ~IsBlank(walletInput) /\ "finite" \notin seen) =>
    /\ total = 0 /\ stable = 0
    /\ result = Resolved([num |-> 0, den |-> 1])
    /\ stableResult = [kind |-> "percent", hundredths |-> 0]

\* a well-formed address whose networks delivered no finite quote: 0.00%
C7_Witness ==
  /\ PerChain /\ pc = "done" /\ WellFormedAddr(a) /\ "finite" \notin seen
  /\ Len(requests) = Len(CHAINS)
  /\ result = Resolved([num |-> 0, den |-> 1])

\* C8: when the submitted address is empty or malformed, the handler shows an
\* error message; a percentage is shown only for a well-formed address.
C8_ErrorShownForBadAddress ==
  /\ (PerChain /\ pc = "done" /\ ~WellFormedAddr(a)) => stableResult.kind = "text" /\ stableResult.text = "error"
  /\ (CrossChain /\ pc = "done" /\ ~WellFormedAddr(a)) => resultDiv.kind = "error"
  /\ stableResult.kind = "percent" => WellFormedAddr(a)
  /\ resultDiv.kind = "breakdown" => WellFormedAddr(a)

\* the single request of getPortfolioBreakdown ends with a non-success status
\* or with a body lacking the data structure
SkippableFailure ==
  /\ CrossChain
  /\ \/ gpbFetchNotOk
     \/ \E resData \in Bodies : gpbJsonResolves(resData) /\ ~Truthy(GetData(resData))

ZeroBreakdown == [total |-> 0, stable |-> 0, percentage |-> [num |-> 0, den |-> 1]]

WordRuns(s) ==
  { SubSeq(s, i, j) : <<i, j>> \in
      { p \in (1..Len(s)) \X (1..Len(s)) :
          /\ p[1] <= p[2]
          /\ \A k \in p[1]..p[2] : IsWordChar(s[k])
          /\ (p[1] = 1 \/ ~IsWordChar(s[p[1] - 1]))
          /\ (p[2] = Len(s) \/ ~IsWordChar(s[p[2] + 1])) } }
OccursAsWord(w, s) == w \in WordRuns(s)

\* the uppercased symbol and name of the classified token
TokenSym == UpperOf(token.contract_ticker_symbol)
TokenName == UpperOf(token.contract_name)
TokenHasWord ==
  \/ OccursAsWord(USD, TokenSym) \/ OccursAsWord(STABLE, TokenSym)
  \/ OccursAsWord(USD, TokenName) \/ OccursAsWord(STABLE, TokenName)

\* C10: a token whose ticker is not in the allow-list is classified stable (by
\* isStableToken, by isStable) only if USD or STABLE is one of the whole words
\* of its symbol or name; a token named CUSTODY or USDX with such a ticker and
\* no whole word in its symbol is not stable, a token named "USD Coin" is.
C10_WholeWordHeuristic ==
  (verdict.done /\ ~verdict.threw) =>
    /\ (TokenSym \notin STABLE_TICKERS /\ verdict.isStableToken) => TokenHasWord
    /\ (TokenSym \notin STABLECOIN_TICKERS /\ verdict.isStable) => TokenHasWord
    /\ (/\ TokenName \in {CUSTODY, USDX}
        /\ TokenSym \notin STABLECOIN_TICKERS
        /\ ~OccursAsWord(USD, TokenSym) /\ ~OccursAsWord(STABLE, TokenSym))
         => (~verdict.isStableToken /\ ~verdict.isStable)
    /\ TokenName = toUpperCase(UsdCoin) => (verdict.isStableToken /\ verdict.isStable)

\* a token named USDX with the ticker X has been classified, and is not stable
C10_Witness ==
  /\ verdict.done /\ ~verdict.threw
  /\ token.contract_name = Str(USDX)
  /\ token.contract_ticker_symbol = Str(<<"X">>)
  /\ ~verdict.isStableToken /\ ~verdict.isStable

\* C11: isStableToken answers true exactly when the uppercased ticker is in
\* STABLE_TICKERS, or USD or STABLE is a whole word of the uppercased symbol or
\* of the uppercased name (a missing symbol or name counting as the empty
\* string), and false otherwise.
C11_ClassifierCompleteness ==
  (verdict.done /\ ~verdict.threw) =>
    (verdict.isStableToken <=> (TokenSym \in STABLE_TICKERS \/ TokenHasWord))

\* the quotes that are absent or not numeric
NonNumericQuotes == { Undefined, Null, Str(NotAvailable), Str(<<>>), Infinity, Str(InfinityWord) }
\* the classifier the loop of the loaded script calls
ClassifierThrows(it) == IF PerChain THEN isStableTokenThrows(it) ELSE isStableThrows(it)
ClassifiedStable(it) == IF PerChain THEN isStableToken(it) ELSE isStable(it)

\* C12: an item whose quote is absent, not numeric or does not parse to a
\* finite number leaves total and stable as they were, stablecoin or not; an
\* item with a finite quote adds it to total, and to stable exactly when the
\* item is classified as a stablecoin.
C12_NonFiniteQuotesExcluded ==
  \A k \in 1..pos :
    LET it == itemList[k]
        before == trail[k]
        after == trail[k + 1]
    IN IsObject(it) =>
         LET q == parseFloat(it.quote) IN
         /\ (it.quote \in NonNumericQuotes \/ ~IsFinite(q)) => after = before
         /\ IsFinite(q) =>
              /\ it.quote \notin NonNumericQuotes
              /\ after.total = before.total + q.n
              /\ after.stable =
                   IF ~ClassifierThrows(it) /\ ClassifiedStable(it)
                   THEN before.stable + q.n ELSE before.stable

\* a USDC item quoted "N/A" was skipped and an ETH item quoted 100 added to
\* total alone
C12_Witness ==
  /\ pos = 2 /\ loopPc = "run"
  /\ itemList = << Item(Str(USDC), Str(Ether), Str(NotAvailable)),
                   Item(Str(ETH), Str(Ether), Num(100)) >>
  /\ trail = << Sums(300, 100), Sums(300, 100), Sums(400, 100) >>

\* C14: the requests of one invocation are issued in the order of CHAINS, at
\* most one of them is in flight, and a request in flight is the last one
\* issued: every request before it has completed.
C14_SequentialPacing ==
  PerChain =>
    /\ Len(requests) <= Len(CHAINS)
    /\ \A i \in 1..Len(requests) : requests[i] = CHAINS[i]
    /\ Cardinality(inFlight) <= 1
    /\ \A i \in 1..Len(requests) : CHAINS[i] \in inFlight => i = Len(requests)
    /\ pc \in {"fetch", "json"} <=> inFlight # {}

\* the body of the third network is being read, the first two requests are over
C14_Witness ==
  /\ PerChain /\ pc = "json"
  /\ requests = SubSeq(CHAINS, 1, 3)
  /\ inFlight = {CHAINS[3]}

\* C15: an invocation that passed validation and returned has issued exactly
\* one request to each network of CHAINS, whatever failed on the way.
C15_NoEarlyAbort ==
  (PerChain /\ pc = "done" /\ result.kind = "resolved") =>
    /\ requests = CHAINS
    /\ Len(requests) = 7
    /\ \A i, j \in 1..Len(requests) : requests[i] = requests[j] => i = j

\* an address no network answers with success: all seven requests failed, all
\* seven were issued
C15_Witness ==
  /\ PerChain /\ pc = "done" /\ result.kind = "resolved"
  /\ a # <<>> /\ ~WellFormedAddr(a)
  /\ requests = CHAINS

SameNumber(p, q) == p.num * q.den = q.num * p.den
CallReturned(i) == calls[i].pc = "done" /\ calls[i].result.kind = "resolved"

\* C13: the percentage an invocation of getStablePercent returns is the one its
\* own responses give when counted from zero, whatever an earlier invocation
\* left behind; two invocations with the same address and the same responses
\* return the same number.
C13_Determinism ==
  PerChain =>
    /\ \A i \in Calls :
         CallReturned(i) =>
           SameNumber(calls[i].result.value,
                      Percentage(calls[i].alone.stable, calls[i].alone.total))
    /\ \A i, j \in Calls :
         (/\ CallReturned(i) /\ CallReturned(j)
          /\ calls[i].a = calls[j].a
          /\ calls[i].alone = calls[j].alone)
         => SameNumber(calls[i].result.value, calls[j].result.value)

\* the second invocation was submitted after the first had returned 50% of a
\* 200 USD portfolio; its networks answered nothing and it returned 0
C13_Witness ==
  /\ PerChain /\ CallReturned(1) /\ CallReturned(2)
  /\ calls[2].after /\ ~calls[2].overlapped
  /\ calls[1].a = calls[2].a
  /\ calls[1].alone = Sums(200, 100) /\ calls[1].result.value = [num |-> 10000, den |-> 200]
  /\ calls[2].alone = Sums(0, 0) /\ calls[2].result.value = [num |-> 0, den |-> 1]

\* C17: an invocation of getStablePercent that ran while another one was in
\* flight holds, at every await, the sums of its own responses alone, and
\* returns the percentage of those sums.
C17_OverlappingIndependent ==
  \A i \in Calls :
    (PerChain /\ calls[i].pc # "none" /\ calls[i].overlapped) =>
      /\ calls[i].total = calls[i].alone.total
      /\ calls[i].stable = calls[i].alone.stable
      /\ calls[i].pc = "done" =>
           calls[i].result = Resolved(Percentage(calls[i].alone.stable, calls[i].alone.total))

\* two invocations overlapped; the first summed 400 USD, the second nothing
C17_Witness ==
  /\ PerChain /\ CallReturned(1) /\ CallReturned(2)
  /\ calls[1].overlapped /\ calls[2].overlapped
  /\ calls[1].total = 400 /\ calls[1].stable = 200
  /\ calls[2].total = 0 /\ calls[2].result.value = [num |-> 0, den |-> 1]

\* what the handler of a finished check writes
OutcomeText(c) ==
  IF PerChain
  THEN IF c.result.kind = "resolved" THEN PercentText(c.result.value) ELSE Text("error")
  ELSE IF c.result.kind = "resolved" THEN BreakdownText(c.result.value)
       ELSE ErrorText(c.result.message)
Displayed == IF PerChain THEN stableResult ELSE resultDiv

\* C18: once every submitted check has completed, the page shows the outcome of
\* the most recent submission.
C18_LatestSubmissionWins ==
  (submitted >= 1 /\ \A i \in Calls : ~InFlightCall(i)) =>
    Displayed = OutcomeText(calls[submitted])

\* C19: isStableToken of script.js and isStable of the cross-chain variant give
\* the same answer for every token.
C19_ClassifiersAgree ==
  (verdict.done /\ ~verdict.threw) => (verdict.isStableToken <=> verdict.isStable)

\* C20: whenever next2 is enabled on step 2, the reveal of the most recent
\* next1 click or role selection has completed and no endless-glitch interval is
\* scrambling roleText.
C20_Step2Gating ==
  (step = 2 /\ ~next2Disabled) => (revealDone /\ glitchTimer = Null)

\* the role of the user found by the most recent next1 lookup or, for a
\* nickname not in OG_DATA, the value selected in roleSelect
CurrentRole == IF Truthy(currentUser) THEN currentUser.user.role ELSE roleSelectValue

\* C21: whenever a role reveal completes on step 2, the text it leaves in
\* roleText is the current role: that of the user the most recent next1 click
\* found, or the value now selected in roleSelect.
C21_RevealedRoleIsCurrent ==
  [][(step = 2 /\ Len(reveals') < Len(reveals)) => roleText'.textContent = CurrentRole]_vars

====
